---- MODULE Spec2Model ----
(***************************************************************************)
(* Model of pyrosl.py: the ROSL class (constructor, fit_transform and      *)
(* _check_array) around the native routine pyROSL of librosl.so.           *)
(*                                                                         *)
(* Arrays live in a heap of numbered buffers.  A buffer carries its shape, *)
(* its two numpy contiguity flags and an abstract content token: 0 for a   *)
(* zero-filled array, -i for the data of the caller's i-th matrix and k    *)
(* for what the k-th call of the native routine wrote.  reg is counted in  *)
(* units of 0.01 and tol in units of 1e-6.                                 *)
(***************************************************************************)
EXTENDS Integers, Sequences, FiniteSets, TLC

MaxDim == 2
MaxCalls == 2

DefaultRank == 5
DefaultReg == 1
DefaultTol == 1
DefaultIters == 500

VARIABLES self, heap, nextId, calls, last, results

vars == <<self, heap, nextId, calls, last, results>>

Range(s) == {s[i] : i \in DOMAIN s}

Min(a, b) == IF a < b THEN a ELSE b

(* ---------------- numpy ------------------------------------------------ *)

\* An array of the given shape laid out in the given order.  An array with
\* a dimension of length 1 is both C- and F-contiguous.
MkArray(shape, order, data) ==
    [shape |-> shape,
     c |-> (order = "C" \/ shape[1] = 1 \/ shape[2] = 1),
     f |-> (order = "F" \/ shape[1] = 1 \/ shape[2] = 1),
     data |-> data]

Alloc(h, id, arr) == [i \in DOMAIN h \cup {id} |-> IF i = id THEN arr ELSE h[i]]

\* x = X: no copy is made.
np_copy_alias(h, nid, X) == [heap |-> h, nextId |-> nid, id |-> X]

\* np.copy(X): a new buffer with X's data and X's layout.
np_copy(h, nid, X) == [heap |-> Alloc(h, nid, h[X]), nextId |-> nid + 1, id |-> nid]

\* np.isfortran(x): F-contiguous and not C-contiguous.
isfortran(arr) == arr.f /\ ~arr.c

\* np.asfortranarray(x): x itself when already F-contiguous, else a new
\* column-major buffer holding the same data.
asfortranarray(h, nid, a) ==
    IF h[a].f
    THEN [heap |-> h, nextId |-> nid, id |-> a]
    ELSE [heap |-> Alloc(h, nid, MkArray(h[a].shape, "F", h[a].data)),
          nextId |-> nid + 1, id |-> nid]

\* np.zeros(shape, dtype=np.double) with numpy's default order, 'C'.
np_zeros_C(shape) == MkArray(shape, "C", 0)

\* np.zeros((n_samples, n_features), dtype=np.double, order='F')
np_zeros(shape) == MkArray(shape, "F", 0)

\* Python 2 comparison of two 2-tuples: lexicographic.
TupleGT(a, b) == a[1] > b[1] \/ (a[1] = b[1] /\ a[2] > b[2])

\* Python's + on operands of the given types.
PyAdd(ltype, rtype) == IF ltype = rtype THEN ltype ELSE "TypeError"

(* ---------------- the caller's matrices -------------------------------- *)

CallerIds == 1..(2 * MaxDim * MaxDim)

\* One caller matrix per shape and storage order.
CallerArray(i) ==
    LET k == (i - 1) \div 2
    IN MkArray(<<(k \div MaxDim) + 1, (k % MaxDim) + 1>>,
               IF i % 2 = 1 THEN "C" ELSE "F", 0 - i)

CallerHeap == [i \in CallerIds |-> CallerArray(i)]

(* ---------------- ROSL.__init__ ---------------------------------------- *)

modes == [full |-> 0, subsample |-> 1]

NoInstance == [created |-> FALSE]

Methods == {"full", "subsample", "other"}
SampVals == (0 - 1)..(MaxDim + 1)
RankVals == (0 - 1)..MaxDim
SignVals == {0 - 1, 0, 1}

Defaults ==
    [method |-> "full", sampling |-> <<0 - 1, 0 - 1>>, rank |-> DefaultRank,
     reg |-> DefaultReg, tol |-> DefaultTol, iters |-> DefaultIters]

\* The constructor calls: ROSL(method=..., sampling=...), ROSL(rank=...),
\* ROSL(reg=...), ROSL(tol=...) and ROSL(iters=...), the arguments left out
\* taking their defaults.
ConstructorArgs ==
    {[Defaults EXCEPT !.method = m, !.sampling = sp] : m \in Methods, sp \in SampVals \X SampVals}
    \cup {[Defaults EXCEPT !.rank = r] : r \in RankVals}
    \cup {[Defaults EXCEPT !.reg = v] : v \in SignVals}
    \cup {[Defaults EXCEPT !.tol = v] : v \in SignVals}
    \cup {[Defaults EXCEPT !.iters = v] : v \in SignVals}

\* The constructor: the exception it raises, or the instance it leaves.
init(a) ==
    IF a.method \notin DOMAIN modes
    THEN [exc |-> IF PyAdd("str", "list") = "TypeError" THEN "TypeError" ELSE "ValueError",
          self |-> NoInstance]
    ELSE IF a.method = "subsample" /\ (0 - 1) \in Range(a.sampling)
    THEN [exc |-> "ValueError", self |-> NoInstance]
    ELSE [exc |-> "none",
          self |-> [created |-> TRUE, method |-> a.method, mode |-> modes[a.method],
                    sampling |-> a.sampling, rank |-> a.rank, reg |-> a.reg,
                    tol |-> a.tol, iters |-> a.iters, verbose |-> FALSE,
                    basis_ |-> 0, coeffs_ |-> 0, residuals_ |-> 0]]

(* ---------------- the native routine ----------------------------------- *)

NoCall == [called |-> FALSE]

\* What the routine may do: the rank it returns, why it stopped, and whether
\* it wrote into the X buffer it was handed.
NativeOutcomes(shape) ==
    [R : 0..Min(shape[1], shape[2]), stop : {"tol", "cap"}, touchX : BOOLEAN]

\* The heap after the routine ran on buffers x, D, alpha, E.
pyROSL(h, x, D, alpha, E, nat, stamp) ==
    [i \in DOMAIN h |->
        IF i \in {D, alpha, E} \/ (i = x /\ nat.touchX)
        THEN [h[i] EXCEPT !.data = stamp]
        ELSE h[i]]

(* ---------------- ROSL._check_array ------------------------------------ *)

check_array(s, h, nid, X) ==
    LET c1 == np_copy(h, nid, X)
        c2 == IF ~isfortran(c1.heap[c1.id])
              THEN asfortranarray(c1.heap, c1.nextId, c1.id)
              ELSE c1
    IN [heap |-> c2.heap, nextId |-> c2.nextId, x |-> c2.id,
        exc |-> IF TupleGT(s.sampling, c2.heap[c2.id].shape)
                THEN "ValueError" ELSE "none"]

(* ---------------- ROSL.fit_transform ----------------------------------- *)

\* The value of the return statement.
ReturnValue(R, D, alpha, E, stop) == <<D, alpha, E>>

\* Lines 101-110: allocate D, alpha, E, call the routine, store and return.
decompose(s, h, nid, x, nat, stamp) ==
    LET shape == h[x].shape
        D == nid
        alpha == nid + 1
        E == nid + 2
        h1 == Alloc(Alloc(Alloc(h, D, np_zeros(shape)), alpha, np_zeros(shape)),
                    E, np_zeros(shape))
        h2 == pyROSL(h1, x, D, alpha, E, nat, stamp)
    IN [exc |-> "none", heap |-> h2, nextId |-> nid + 3,
        self |-> [s EXCEPT !.basis_ = D, !.coeffs_ = alpha, !.residuals_ = E],
        outputs |-> <<D, alpha, E>>,
        native |-> [called |-> TRUE, R |-> nat.R, stop |-> nat.stop,
                    touchX |-> nat.touchX, args |-> <<x, D, alpha, E>>, rank |-> s.rank, reg |-> s.reg,
                    tol |-> s.tol, iters |-> s.iters, mode |-> s.mode,
                    xarr |-> h[x], outarrs |-> <<h1[D], h1[alpha], h1[E]>>],
        ret |-> ReturnValue(nat.R, D, alpha, E, nat.stop)]

\* A fit_transform that runs the decomposition first and checks afterwards.
fit_transform_late_check(s, h, nid, X, nat, stamp) ==
    LET c == check_array(s, h, nid, X)
        r == decompose(s, c.heap, c.nextId, c.x, nat, stamp)
    IN IF c.exc # "none" THEN [r EXCEPT !.exc = c.exc, !.ret = <<>>] ELSE r

fit_transform(s, h, nid, X, nat, stamp) ==
    LET c == check_array(s, h, nid, X)
    IN IF c.exc # "none"
       THEN [exc |-> c.exc, heap |-> c.heap, nextId |-> c.nextId, self |-> s,
             outputs |-> <<>>, native |-> NoCall, ret |-> <<>>]
       ELSE decompose(s, c.heap, c.nextId, c.x, nat, stamp)

(* ---------------- the state machine ------------------------------------ *)

NoOp == [op |-> "none", exc |-> "none", method |-> "none", X |-> 0, fresh |-> {}, outputs |-> <<>>,
         native |-> NoCall, ret |-> <<>>]

Init ==
    /\ self = NoInstance
    /\ heap = CallerHeap
    /\ nextId = 2 * MaxDim * MaxDim + 1
    /\ calls = 0
    /\ last = NoOp
    /\ results = <<>>

Construct(a) ==
    /\ ~self.created
    /\ self' = init(a).self
    /\ last' = [NoOp EXCEPT !.op = "__init__", !.exc = init(a).exc, !.method = a.method]
    /\ UNCHANGED <<heap, nextId, calls, results>>

\* The arrays the caller can pass: its own matrices and every array an
\* earlier call returned.
CallerVisible == CallerIds \cup UNION {Range(results[k].ret) : k \in DOMAIN results}

FitTransform(X, nat) ==
    /\ self.created
    /\ calls < MaxCalls
    /\ \E r \in {fit_transform(self, heap, nextId, X, nat, calls + 1)} :
       LET fresh == nextId..(r.nextId - 1)
           held == Range(r.ret) \cup {r.self.basis_, r.self.coeffs_, r.self.residuals_}
           live == DOMAIN r.heap \ (fresh \ held)
       IN /\ heap' = [i \in live |-> r.heap[i]]
          /\ nextId' = r.nextId
          /\ self' = r.self
          /\ last' = [op |-> "fit_transform", exc |-> r.exc, method |-> "none", X |-> X,
                      fresh |-> fresh, outputs |-> r.outputs, native |-> r.native, ret |-> r.ret]
          /\ results' = IF r.exc = "none"
                        THEN Append(results,
                                    [ret |-> r.ret,
                                     snap |-> [k \in DOMAIN r.ret |-> r.heap[r.ret[k]]]])
                        ELSE results
    /\ calls' = calls + 1

Next ==
    \/ \E a \in ConstructorArgs : Construct(a)
    \/ \E X \in CallerVisible : \E nat \in NativeOutcomes(heap[X].shape) : FitTransform(X, nat)

Spec == Init /\ [][Next]_vars

(* ---------------- properties ------------------------------------------- *)

Called == last.op = "fit_transform"

Returned == Called /\ last.exc = "none"

Raised == Called /\ last.exc = "ValueError"

XShape == heap[last.X].shape

\* C1: in subsample mode, a sampling component larger than its own
\* dimension of X makes fit_transform raise the validation error before the
\* native routine is called (stated here for pairs of positive sizes).
C1_OversizeSamplingRaises ==
    (Called /\ self.mode = 1 /\ self.sampling[1] >= 1 /\ self.sampling[2] >= 1
       /\ (self.sampling[1] > XShape[1] \/ self.sampling[2] > XShape[2]))
    => (last.exc = "ValueError" /\ ~last.native.called)

\* C2: in full mode the sampling value is ignored, so fit_transform never
\* raises because of it.
C2_FullModeIgnoresSampling ==
    (Called /\ self.method = "full") => last.exc = "none"

\* C3: a non-positive rank, reg, tol or iters is rejected before the native
\* routine is called, and a rank equal to min(n_samples, n_features) is
\* accepted.
C3_NonPositiveRejected ==
    /\ (Called /\ (self.rank <= 0 \/ self.reg <= 0 \/ self.tol <= 0 \/ self.iters <= 0))
       => (last.exc # "none" /\ ~last.native.called)
    /\ (Called /\ self.method = "full" /\ self.sampling = <<0 - 1, 0 - 1>>
          /\ self.rank = Min(XShape[1], XShape[2])
          /\ self.reg > 0 /\ self.tol > 0 /\ self.iters > 0)
       => last.exc = "none"

\* C4: no instance in subsample mode has an unset sampling pair or a
\* sampling component that is not a positive size.
C4_SubsampleNeedsValidSampling ==
    (self.created /\ self.method = "subsample")
    => (self.sampling[1] >= 1 /\ self.sampling[2] >= 1)

\* C5: a method other than 'full' and 'subsample' makes the constructor
\* raise ValueError and leave no instance; 'full' and 'subsample' give the
\* internal modes 0 and 1.
C5_UnknownMethodValueError ==
    /\ (last.op = "__init__" /\ last.method \notin {"full", "subsample"})
       => (last.exc = "ValueError" /\ ~self.created)
    /\ self.created
       => (self.method \in {"full", "subsample"}
           /\ self.mode = (IF self.method = "full" THEN 0 ELSE 1))

\* C6: fit_transform returns four components, R, D, alpha and E, R being
\* the integer the native routine produced.
C6_ReturnsRankAndMatrices ==
    Returned
    => (Len(last.ret) = 4 /\ last.ret[1] = last.native.R
        /\ <<last.ret[2], last.ret[3], last.ret[4]>> = last.outputs)

\* C7: when the routine stopped at the iteration cap, the returned value
\* differs from the value returned for the same rank and matrices after a
\* stop by convergence, so the caller can tell the two apart.
C7_NonConvergenceIndicated ==
    (Returned /\ last.native.stop = "cap")
    => last.ret # ReturnValue(last.native.R, last.outputs[1], last.outputs[2],
                              last.outputs[3], "tol")

\* C8 as stated: D, alpha and E have X's shape and the memory layout of the
\* input X.
C8_OutputsShareInputLayout ==
    Returned
    => \A k \in DOMAIN last.ret :
          /\ heap[last.ret[k]].shape = XShape
          /\ heap[last.ret[k]].c = heap[last.X].c
          /\ heap[last.ret[k]].f = heap[last.X].f

\* C8 amended: D, alpha and E have X's shape and are column-major, the
\* layout of the converted copy of X handed to the native routine, whatever
\* the layout of X and the rank returned.
C8_OutputsColumnMajor ==
    Returned
    => \A k \in DOMAIN last.ret :
          /\ heap[last.ret[k]].shape = XShape
          /\ heap[last.ret[k]].f
          /\ heap[last.ret[k]].c = last.native.xarr.c
          /\ heap[last.ret[k]].f = last.native.xarr.f

\* A call on a row-major matrix with both dimensions above 1 has returned.
C8_Witness ==
    /\ Returned
    /\ heap[last.X].c /\ ~heap[last.X].f
    /\ last.native.R < Min(XShape[1], XShape[2])

\* C9: a fit_transform that fails with the validation error has allocated
\* no output buffer, has not called the native routine, and leaves basis_,
\* coeffs_ and residuals_ and the arrays they name as they were.
C9_RaiseBeforeAllocation ==
    [][(calls' = calls + 1 /\ last'.exc = "ValueError")
       => /\ last'.outputs = <<>>
          /\ ~last'.native.called
          /\ self' = self
          /\ \A b \in {self.basis_, self.coeffs_, self.residuals_} \ {0} :
                b \in DOMAIN heap' /\ heap'[b] = heap[b]]_vars

\* A call has failed on an instance that holds the results of an earlier call.
C9_Witness == Raised /\ self.basis_ # 0 /\ results # <<>>

\* C10: the native routine is handed only buffers created in the current
\* call, a column-major copy of X and zeroed D, alpha, E; the caller's
\* matrices are never modified; the matrices of every earlier result are distinct from those of
\* any other result and keep the content they were returned with; basis_,
\* coeffs_ and residuals_ name the latest result.
C10_CallOwnsItsBuffers ==
    /\ \A i \in CallerIds : heap[i] = CallerHeap[i]
    /\ last.native.called
       => /\ Range(last.native.args) \subseteq last.fresh
          /\ Cardinality(Range(last.native.args)) = 4
          /\ last.native.xarr.f
          /\ last.native.xarr.shape = XShape
          /\ last.native.xarr.data = heap[last.X].data
          /\ \A k \in DOMAIN last.native.outarrs :
                last.native.outarrs[k] = MkArray(XShape, "F", 0)
    /\ \A k \in DOMAIN results :
          /\ Cardinality(Range(results[k].ret)) = 3
          /\ \A j \in DOMAIN results[k].ret :
                heap[results[k].ret[j]] = results[k].snap[j]
          /\ \A k2 \in DOMAIN results :
                k2 # k => Range(results[k].ret) \cap Range(results[k2].ret) = {}
    /\ results # <<>>
       => <<self.basis_, self.coeffs_, self.residuals_>> = results[Len(results)].ret

\* A second call was given a matrix the first call returned, and the native
\* routine wrote into the X buffer it was handed.
C10_Witness ==
    /\ Returned
    /\ Len(results) = 2
    /\ last.X \in Range(results[1].ret)
    /\ last.native.touchX

====
